---- MODULE Spec2Model ----
(***************************************************************************)
(* Model of the bot-manager lifecycle controller                           *)
(* (services/bot-manager/app/main.py): the Meeting rows, the               *)
(* MeetingSession rows, the Redis bus and cache, and the HTTP and callback *)
(* handlers.  A handler is a coroutine: it is cut at the awaits where      *)
(* another handler can touch the database between its read and its write.  *)
(* Each handler works on the row object it loaded (its snapshot); a commit *)
(* writes the columns the handler assigned.  A handler that answers from   *)
(* its first checks, before any write, publish or task, takes no step: its *)
(* answer is the value of the handler's checks operator in that state.     *)
(* GET /bots/status and the Nomad job listing it reads                     *)
(* (orchestrators/nomad.py) are modelled apart, under SpecBots.            *)
(***************************************************************************)
EXTENDS Integers, Sequences, FiniteSets, TLC

\* ---- bounds of the model ------------------------------------------------
\* MaxMeetings: rows request_bot may create.  MaxBudget: what the handlers
\* that get past their first checks may take in all (the others answer at
\* once and change nothing); see Cost.
MaxMeetings == 2
MaxBudget == 10

\* ---- inputs ---------------------------------------------------------------
Users == {1, 2}
Keys == {"gm:abc"}
Handlers == {1, 2}

\* max_concurrent_bots of each user: user 1 is capped at one bot, user 2 is
\* unlimited (0).
max_concurrent_bots == [u \in Users |-> IF u = 1 THEN 1 ELSE 0]

\* ---- MeetingStatus (shared_models.schemas) ------------------------------
REQUESTED == "requested"
JOINING == "joining"
AWAITING_ADMISSION == "awaiting_admission"
ACTIVE == "active"
COMPLETED == "completed"
FAILED == "failed"

MeetingStatus == {REQUESTED, JOINING, AWAITING_ADMISSION, ACTIVE, COMPLETED, FAILED}
ActiveSet == {REQUESTED, JOINING, AWAITING_ADMISSION, ACTIVE}
Terminal == {COMPLETED, FAILED}
PreActive == {REQUESTED, JOINING, AWAITING_ADMISSION}

\* The transition table of the status FSM.
ValidTargets(s) ==
    CASE s = REQUESTED -> {JOINING, AWAITING_ADMISSION, ACTIVE, COMPLETED, FAILED}
      [] s = JOINING -> {AWAITING_ADMISSION, ACTIVE, COMPLETED, FAILED}
      [] s = AWAITING_ADMISSION -> {ACTIVE, COMPLETED, FAILED}
      [] s = ACTIVE -> {COMPLETED, FAILED}
      [] OTHER -> {}

is_valid_status_transition(from, to) == to \in ValidTargets(from)

\* ---- rows -------------------------------------------------------------------
NoData ==
    [stop_requested |-> FALSE,
     status_transition |-> << >>,
     has_status_transitions |-> FALSE,
     status_transitions |-> << >>,
     completion_reason |-> "none",
     failure_stage |-> "none",
     last_error |-> FALSE]

\* start_time is the number of timestamps written to the column (0: NULL),
\* so that a second write of datetime.utcnow() gives a different value.
NoRow ==
    [user |-> 0, key |-> "", status |-> "", bot_container_id |-> 0,
     start_time |-> 0, end_time |-> FALSE, data |-> NoData]

NoArg == [uid |-> 0, container_id |-> 0, exit_code |-> 0, extra |-> FALSE]

Idle ==
    [op |-> "idle", pc |-> "idle", user |-> 0, key |-> "", m |-> 0,
     snap |-> NoRow, arg |-> NoArg]

VARIABLES
    meetings,        \* Meeting table: sequence of rows, id = index
    recent,          \* recent[m]: no stop_bot has yet seen the row 5 seconds old
    sessions,        \* MeetingSession table, in session_start_time order
    pending,         \* scheduled _record_session_start tasks (meeting ids)
    redis,           \* "up", "down" (redis_client is None) or "failing"
    cache,           \* bm:meeting:<key>:current_uid  (0 = no key)
    statusBus,       \* statusBus[m]: statuses announced for meeting m, in order
    cmdBus,          \* messages published on bot_commands:<channel>, in order
    reaps,           \* reaps[m]: scheduled _delayed_container_stop tasks
    dispatched,      \* dispatched[m]: scheduled run_all_tasks(m) calls
    handlers,        \* the running handlers
    spent,           \* budget used by the handlers started so far
    nomad            \* the Nomad API, its bot jobs and the last GET /bots/status

vars == <<meetings, recent, sessions, pending, redis, cache, statusBus, cmdBus,
          reaps, dispatched, handlers, spent, nomad>>

MeetingIds == 1..Len(meetings)

\* ---- helpers ----------------------------------------------------------------
Max(S) == CHOOSE x \in S : \A y \in S : y <= x
Min(S) == CHOOSE x \in S : \A y \in S : x <= y
Last(s) == s[Len(s)]

IdleSlots == {h \in Handlers : handlers[h].op = "idle"}
FreeSlot == Min(IdleSlots)

\* Rows of (user, key), any status: stop_bot and update_bot_config order them
\* by created_at descending and take the first; ids grow with created_at.
MeetingsOf(u, k) == {m \in MeetingIds : meetings[m].user = u /\ meetings[m].key = k}
LatestOf(S) == IF S = {} THEN 0 ELSE Max(S)

\* The count of the concurrency check of request_bot.
CountActiveForUser(u) ==
    Cardinality({m \in MeetingIds : meetings[m].user = u /\ meetings[m].status \in ActiveSet})

\* Statuses the duplicate check of request_bot selects.
ExistingStatuses == {"requested", "active"}

ExistingMeeting(u, k) ==
    LatestOf({m \in MeetingsOf(u, k) : meetings[m].status \in ExistingStatuses})

\* MeetingSession queries.
SessionIdx(m) == {i \in 1..Len(sessions) : sessions[i].meeting = m}
EarliestSessionUid(m) == IF SessionIdx(m) = {} THEN 0 ELSE sessions[Min(SessionIdx(m))].uid
LatestSessionUid(m) == IF SessionIdx(m) = {} THEN 0 ELSE sessions[Max(SessionIdx(m))].uid
SessionByUid(uid) ==
    IF \E i \in 1..Len(sessions) : sessions[i].uid = uid
    THEN sessions[Min({i \in 1..Len(sessions) : sessions[i].uid = uid})].meeting
    ELSE 0

\* ---- update_meeting_status ------------------------------------------------
\* exit_code is the key the exit callback passes in transition_metadata
\* (-1: no such key).
transition_entry(old, new, cr, fs, exit_code) ==
    [from |-> old, to |-> new, completion_reason |-> cr, failure_stage |-> fs,
     exit_code |-> exit_code]

\* The deprecated key is deleted from the rebuilt data; its entries are not
\* copied anywhere.
MigrateDeprecated(data) ==
    [data EXCEPT !.has_status_transitions = FALSE, !.status_transitions = << >>]

\* The row object after the assignments of update_meeting_status.
UpdatedRow(row, new, cr, fs, exit_code) ==
    [row EXCEPT
        !.status = new,
        !.end_time = IF new \in Terminal THEN TRUE ELSE @,
        !.data = MigrateDeprecated([@ EXCEPT
            !.completion_reason = IF new = COMPLETED /\ cr # "none" THEN cr ELSE @,
            !.failure_stage = IF new = FAILED /\ fs # "none" THEN fs ELSE @,
            !.status_transition = Append(@, transition_entry(row.status, new, cr, fs, exit_code))])]

\* Variant: the transition is not validated.
update_meeting_status_unchecked(row, new) ==
    IF row.status \notin MeetingStatus THEN "raise" ELSE "ok"

\* Outcome of update_meeting_status on the row object the handler holds:
\* "raise" when MeetingStatus(meeting.status) fails, "invalid" when the
\* transition is rejected, "ok" otherwise.
update_meeting_status(row, new) ==
    IF row.status \notin MeetingStatus THEN "raise"
    ELSE IF ~is_valid_status_transition(row.status, new) THEN "invalid"
    ELSE "ok"

\* db.commit() of update_meeting_status: the UPDATE carries the columns the
\* handler assigned (status, data, end_time when terminal); the other columns
\* of the stored row are left as they are.
CommitStatus(dbrow, obj) ==
    [dbrow EXCEPT
        !.status = obj.status,
        !.data = obj.data,
        !.end_time = IF obj.status \in Terminal THEN obj.end_time ELSE @]

\* ---- publish_meeting_status_change ---------------------------------------
\* Variant: the message is never sent.
NotPublished(bus, m, status) == bus

\* Nothing is published when redis_client is None, and a failing publish is
\* swallowed.
Published(bus, m, status) ==
    IF redis = "up" THEN [bus EXCEPT ![m] = Append(@, status)] ELSE bus

\* Variant: the status is published whatever update_meeting_status returned.
PublishAlways(res) == TRUE

\* Handlers publish a new status only when update_meeting_status succeeded.
PublishAfter(res) == res = "ok"

\* ---- finishing a handler ---------------------------------------------------
\* An answer: HTTP status code and the discriminator of the body.
Resp(code, result) == [code |-> code, result |-> result]

\* Code 0: the handler goes on past its first checks.
GoOn == Resp(0, "")

\* The handler returns: its slot is free again.
Return(h) == handlers' = [handlers EXCEPT ![h] = Idle]

\* BackgroundTasks run after the response: run_all_tasks and
\* _delayed_container_stop (delay < 0: none).
Schedule(m, dispatch, container, delay) ==
    /\ dispatched' = IF dispatch THEN [dispatched EXCEPT ![m] = @ + 1] ELSE dispatched
    /\ reaps' = IF delay >= 0
                THEN [reaps EXCEPT ![m] = Append(@, [container |-> container, delay |-> delay,
                                                           done |-> FALSE])]
                ELSE reaps

\* ---- _delayed_container_stop ----------------------------------------------
\* The scheduled task sleeps for its delay and stops the container; it reads
\* and writes no meeting row and publishes nothing.
DelayedContainerStop(m, i) ==
    /\ ~reaps[m][i].done
    /\ reaps' = [reaps EXCEPT ![m][i].done = TRUE]
    /\ UNCHANGED <<nomad, meetings, recent, sessions, pending, redis, cache, statusBus,
                   cmdBus, dispatched, handlers, spent>>

\* ---- the Nomad runtime and GET /bots/status -----------------------------
\* Slots of bot jobs the Nomad API lists under the bot job prefix.
JobIds == {1, 2}

NoJob == [user |-> 0, status |-> "none", detail_ok |-> TRUE]

\* api: whether GET /v1/jobs answers; asked, answer: the caller and the
\* response of the last GET /bots/status since the runtime last changed.
NoNomad ==
    [api |-> "ok", jobs |-> [j \in JobIds |-> NoJob], asked |-> 0,
     answer |-> [code |-> 0, running_bots |-> {}]]

\* orchestrators/nomad.py: the jobs of the user that are running or pending
\* and whose detail and allocation requests answer; the empty list on any
\* error of the job listing.
get_running_bots_status(user_id) ==
    IF nomad.api # "ok" THEN {}
    ELSE {j \in JobIds : /\ nomad.jobs[j].status \in {"running", "pending"}
                         /\ nomad.jobs[j].detail_ok
                         /\ nomad.jobs[j].user = user_id}

\* The handler answers 500 only when get_running_bots_status raises, which
\* it never does.
get_user_bots_status(user_id) ==
    [code |-> 200, running_bots |-> get_running_bots_status(user_id)]

\* ---- Init -------------------------------------------------------------------
Init ==
    /\ meetings = << >>
    /\ recent = << >>
    /\ sessions = << >>
    /\ pending = {}
    /\ redis \in {"up", "down", "failing"}
    /\ cache = [k \in Keys |-> 0]
    /\ statusBus = << >>
    /\ cmdBus = << >>
    /\ reaps = << >>
    /\ dispatched = << >>
    /\ handlers = [h \in Handlers |-> Idle]
    /\ spent = 0
    /\ nomad = NoNomad

\* A handler that gets past its first checks takes a free slot.
\* It takes 2 of the budget, and 5 when it starts while another handler is
\* running: runs are up to MaxBudget \div 2 handlers long one after the
\* other, and shorter with handlers that overlap.
Cost == IF IdleSlots = Handlers THEN 2 ELSE 5
CanStart == spent + Cost <= MaxBudget /\ IdleSlots # {}

Inserting == Cardinality({h \in Handlers : handlers[h].pc = "insert"})

\* ---- request_bot ----------------------------------------------------------
\* Duplicate check (409) and concurrency check (403).
\* Variant: the limit is compared with > instead of >=.
request_bot_checks_over(u, k) ==
    IF ExistingMeeting(u, k) # 0 THEN Resp(409, "conflict")
    ELSE IF max_concurrent_bots[u] > 0 /\ CountActiveForUser(u) > max_concurrent_bots[u]
    THEN Resp(403, "limit")
    ELSE GoOn

request_bot_checks(u, k) ==
    IF ExistingMeeting(u, k) # 0 THEN Resp(409, "conflict")
    ELSE IF max_concurrent_bots[u] > 0 /\ CountActiveForUser(u) >= max_concurrent_bots[u]
    THEN Resp(403, "limit")
    ELSE GoOn

\* A request that passes both checks goes on to the insert.  A rejected
\* request raises before any write: it changes nothing, and its answer is
\* request_bot_checks.
RequestBotStart(u, k) ==
    /\ request_bot_checks(u, k) = GoOn
    /\ CanStart
    /\ Len(meetings) + Inserting < MaxMeetings
    /\ spent' = spent + Cost
    /\ handlers' = [handlers EXCEPT ![FreeSlot] =
            [Idle EXCEPT !.op = "request", !.pc = "insert", !.user = u, !.key = k]]
    /\ UNCHANGED <<nomad, meetings, recent, sessions, pending, redis, cache, statusBus,
                   cmdBus, reaps, dispatched>>

\* db.add(new_meeting); commit; refresh; publish 'requested'.
RequestBotInsert(h) ==
    /\ handlers[h].op = "request" /\ handlers[h].pc = "insert"
    /\ LET row == [NoRow EXCEPT !.user = handlers[h].user, !.key = handlers[h].key,
                                !.status = REQUESTED]
           id == Len(meetings) + 1
       IN /\ meetings' = Append(meetings, row)
          /\ recent' = Append(recent, TRUE)
          /\ dispatched' = Append(dispatched, 0)
          /\ reaps' = Append(reaps, << >>)
          /\ statusBus' = Append(statusBus, IF redis = "up" THEN <<REQUESTED>> ELSE << >>)
          /\ handlers' = [handlers EXCEPT ![h] =
                [@ EXCEPT !.pc = "launch", !.m = id, !.snap = row]]
    /\ UNCHANGED <<nomad, sessions, pending, redis, cache, cmdBus, spent>>

\* Status request_bot writes when pre-flight validation or the launch fails.
LaunchFailureStatus == "error"

\* Answer of request_bot for each outcome of the launch.
LaunchAnswer(outcome) ==
    IF outcome = "ok" THEN Resp(201, "created")
    ELSE IF outcome = "preflight" THEN Resp(422, "invalid inputs")
    ELSE Resp(500, "error")

\* Variant: request_bot marks the meeting active once the launcher returned.
LaunchedActive(row, handle) ==
    [row EXCEPT !.bot_container_id = handle, !.status = ACTIVE, !.start_time = @ + 1]

\* Write of request_bot after a successful launch: the container id is the
\* only column assigned before the commit.
Launched(row, handle) == [row EXCEPT !.bot_container_id = handle]

\* Pre-flight validation and start_bot_container.
\* outcome: "ok" (handle and connection id returned), "preflight" (an input
\* is invalid), "none" (no handle returned), "raise" (the launcher raised).
RequestBotLaunch(h) ==
    /\ handlers[h].op = "request" /\ handlers[h].pc = "launch"
    /\ \E outcome \in {"ok", "preflight", "none", "raise"} :
        LET m == handlers[h].m IN
        IF outcome = "ok"
        THEN /\ pending' = pending \cup {m}
             /\ cache' = IF redis = "up" THEN [cache EXCEPT ![handlers[h].key] = m] ELSE cache
             /\ meetings' = [meetings EXCEPT ![m] = Launched(@, m)]
             /\ Return(h)
             /\ UNCHANGED statusBus
        ELSE /\ meetings' = [meetings EXCEPT ![m].status = LaunchFailureStatus]
             /\ statusBus' = Published(statusBus, m, LaunchFailureStatus)
             /\ Return(h)
             /\ UNCHANGED <<pending, cache>>
    /\ UNCHANGED <<nomad, recent, sessions, redis, cmdBus, reaps, dispatched, spent>>

\* ---- _record_session_start ----------------------------------------------
RecordSessionStart(m) ==
    /\ m \in pending
    /\ pending' = pending \ {m}
    /\ sessions' = Append(sessions, [meeting |-> m, uid |-> m])
    /\ UNCHANGED <<nomad, meetings, recent, redis, cache, statusBus, cmdBus, reaps,
                   dispatched, handlers, spent>>

\* ---- stop_bot --------------------------------------------------------------
\* Variant: only a completed row is taken as already stopped.
AlreadyCompleted(row) == row.status \in {COMPLETED}

\* Rows for which stop_bot answers 202 without doing anything.
AlreadyTerminal(row) == row.status \in {COMPLETED, FAILED}

\* Fast path condition: pre-active and created less than 5 seconds ago.
FastPath(row, isRecent) == row.status \in PreActive /\ isRecent

\* Load of the latest row: 404 without a row, the idempotent 202 for a
\* terminal row.
stop_bot_checks(u, k) ==
    LET m == LatestOf(MeetingsOf(u, k)) IN
    IF m = 0 THEN Resp(404, "no meeting")
    ELSE IF AlreadyTerminal(meetings[m]) THEN Resp(202, "already terminal")
    ELSE GoOn

\* The path stop_bot takes on a loaded row that is not terminal.
StopPath(row, isRecent) ==
    IF row.bot_container_id = 0 THEN "finalize"
    ELSE IF FastPath(row, isRecent) THEN "latch"
    ELSE "leave"

\* Ages the request may see: the row's age only grows, and it is read only
\* where the fast path condition gets to it.
Ages(row, wasRecent) ==
    IF row.bot_container_id # 0 /\ row.status \in PreActive /\ wasRecent
    THEN BOOLEAN ELSE {wasRecent}

\* A request that finds a row which is not terminal goes on along StopPath.
\* The 404 and the idempotent 202 return before any write: they change
\* nothing, and the answer is stop_bot_checks.
StopBotStart(u, k) ==
    /\ stop_bot_checks(u, k) = GoOn
    /\ CanStart
    /\ spent' = spent + Cost
    /\ LET m == LatestOf(MeetingsOf(u, k)) IN
       \E isRecent \in Ages(meetings[m], recent[m]) :
         /\ recent' = [recent EXCEPT ![m] = isRecent]
         /\ handlers' = [handlers EXCEPT ![FreeSlot] =
                [Idle EXCEPT !.op = "stop", !.user = u, !.key = k, !.m = m,
                             !.snap = meetings[m],
                             !.pc = StopPath(meetings[m], isRecent)]]
    /\ UNCHANGED <<nomad, meetings, sessions, pending, redis, cache, statusBus,
                   cmdBus, reaps, dispatched>>

\* Fast path: meeting.data["stop_requested"] = True; commit.  The dictionary
\* is changed in place: whether the commit writes the data column depends on
\* the column type (mutation tracking), so both outcomes are possible.
StopBotLatch(h) ==
    /\ handlers[h].op = "stop" /\ handlers[h].pc = "latch"
    /\ LET obj == [handlers[h].snap EXCEPT !.data.stop_requested = TRUE] IN
       /\ handlers' = [handlers EXCEPT ![h] = [@ EXCEPT !.snap = obj, !.pc = "fast"]]
       /\ \E tracked \in BOOLEAN :
            meetings' = IF tracked
                        THEN [meetings EXCEPT ![handlers[h].m].data = obj.data]
                        ELSE meetings
    /\ UNCHANGED <<nomad, recent, sessions, pending, redis, cache, statusBus, cmdBus, reaps,
                   dispatched, spent>>

\* update_meeting_status(COMPLETED, stopped), publish and dispatch of the
\* no-container path (pc "finalize") and of the fast path (pc "fast", which
\* also queued the container stop with delay 0).
StopBotFinalize(h) ==
    /\ handlers[h].op = "stop" /\ handlers[h].pc \in {"finalize", "fast"}
    /\ LET m == handlers[h].m
           snap == handlers[h].snap
           res == update_meeting_status(snap, COMPLETED)
           obj == UpdatedRow(snap, COMPLETED, "stopped", "none", -1)
           delay == IF handlers[h].pc = "fast" THEN 0 ELSE -1
       IN
       IF res = "raise"
       THEN /\ Return(h)
            /\ UNCHANGED <<meetings, statusBus, dispatched, reaps>>
       ELSE /\ meetings' = IF res = "ok" THEN [meetings EXCEPT ![m] = CommitStatus(@, obj)]
                           ELSE meetings
            /\ statusBus' = IF PublishAfter(res) THEN Published(statusBus, m, COMPLETED)
                            ELSE statusBus
            /\ Schedule(m, TRUE, snap.bot_container_id, delay)
            /\ Return(h)
    /\ UNCHANGED <<nomad, recent, sessions, pending, redis, cache, cmdBus, spent>>

\* Status name the general path announces.
StopAnnouncement == "stopping"

\* Variant: the container stop is scheduled only when the leave command
\* could be handed to the bus.
LeaveReapDelayIfSent == IF redis = "up" THEN 30 ELSE -1

\* Delay of the container stop the general path schedules.
LeaveReapDelay == 30

\* General path: earliest session uid, leave command on bot_commands:<uid>
\* (uid 0 stands for None), container stop after 30 s, 'stopping' publish.
StopBotLeave(h) ==
    /\ handlers[h].op = "stop" /\ handlers[h].pc = "leave"
    /\ LET m == handlers[h].m IN
       /\ cmdBus' = IF redis = "up"
                    THEN Append(cmdBus, [channel |-> EarliestSessionUid(m), action |-> "leave",
                                         uid |-> 0, by |-> handlers[h].user, m |-> m])
                    ELSE cmdBus
       /\ Schedule(m, FALSE, handlers[h].snap.bot_container_id, LeaveReapDelay)
       /\ statusBus' = Published(statusBus, m, StopAnnouncement)
       /\ Return(h)
    /\ UNCHANGED <<nomad, meetings, recent, sessions, pending, redis, cache, spent>>

\* ---- update_bot_config ----------------------------------------------------
ActiveMeeting(u, k) == LatestOf({m \in MeetingsOf(u, k) : meetings[m].status = ACTIVE})

\* Session uid the reconfigure command is sent to: the Redis mapping of the
\* (platform, native id) when it can be read and is set, else the latest
\* MeetingSession of the meeting.
ResolveSessionUid(k, m) ==
    IF redis = "up" /\ cache[k] # 0 THEN cache[k] ELSE LatestSessionUid(m)

\* Variant: without an active meeting the answer is always 404.
update_bot_config_404(u, k) ==
    LET m == ActiveMeeting(u, k) IN
    IF m = 0 THEN Resp(404, "no meeting")
    ELSE IF ResolveSessionUid(k, m) = 0 THEN Resp(409, "no session")
    ELSE IF redis = "down" THEN Resp(503, "bus unavailable")
    ELSE IF redis = "failing" THEN Resp(500, "publish failed")
    ELSE Resp(202, "accepted")

\* Answer of update_bot_config; the command is published only with 202.
update_bot_config(u, k) ==
    LET m == ActiveMeeting(u, k) IN
    IF m = 0
    THEN (IF MeetingsOf(u, k) # {} THEN Resp(409, "not active") ELSE Resp(404, "no meeting"))
    ELSE IF ResolveSessionUid(k, m) = 0 THEN Resp(409, "no session")
    ELSE IF redis = "down" THEN Resp(503, "bus unavailable")
    ELSE IF redis = "failing" THEN Resp(500, "publish failed")
    ELSE Resp(202, "accepted")

\* The accepted request publishes the command; every other answer of
\* update_bot_config is raised before the publish and changes nothing.
UpdateBotConfig(u, k) ==
    /\ update_bot_config(u, k).code = 202
    /\ spent + Cost <= MaxBudget
    /\ spent' = spent + Cost
    /\ LET m == ActiveMeeting(u, k)
           uid == ResolveSessionUid(k, m)
       IN cmdBus' = Append(cmdBus, [channel |-> uid, action |-> "reconfigure",
                                     uid |-> uid, by |-> u, m |-> m])
    /\ UNCHANGED <<nomad, meetings, recent, sessions, pending, redis, cache, statusBus, reaps,
                   dispatched, handlers>>

\* ---- bot callbacks ----------------------------------------------------------
Kinds == {"joining", "awaiting_admission", "started", "exited"}

\* Variant: the exit code is not looked at.
TargetOfAnyExit(kind, exit_code) ==
    IF kind = "joining" THEN JOINING
    ELSE IF kind = "awaiting_admission" THEN AWAITING_ADMISSION
    ELSE IF kind = "started" THEN ACTIVE
    ELSE COMPLETED

TargetOf(kind, exit_code) ==
    CASE kind = "joining" -> JOINING
      [] kind = "awaiting_admission" -> AWAITING_ADMISSION
      [] kind = "started" -> ACTIVE
      [] OTHER -> IF exit_code = 0 THEN COMPLETED ELSE FAILED

\* Statuses from which bot_startup_callback attempts the transition.
StartableStatuses == {REQUESTED, JOINING, AWAITING_ADMISSION, FAILED}

\* Variant: bot_startup_callback does not look at the latch.
LatchSetNotStarted(kind, row) ==
    kind \in {"joining", "awaiting_admission"} /\ row.data.stop_requested

\* The stop latch check of the joining, awaiting_admission and started
\* callbacks.
LatchSet(kind, row) == kind # "exited" /\ row.data.stop_requested

\* Answer of a callback whose transition was not applied.
NotApplied(kind) == IF kind \in {"started", "exited"} THEN "error" ELSE kind \o " processed"

\* Session lookup, load of the row and the checks made on the loaded row:
\* the answer when the callback stops there, GoOn when it writes.  joining and
\* awaiting_admission raise HTTPException(404) inside their try block, which
\* the handler's own "except Exception" turns into 500.
callback_checks(kind, arg) ==
    LET m == SessionByUid(arg.uid)
        res == update_meeting_status(meetings[m], TargetOf(kind, arg.exit_code))
    IN
    IF m = 0
    THEN (IF kind \in {"joining", "awaiting_admission"} THEN Resp(500, "exception")
          ELSE Resp(200, "session not found"))
    ELSE IF LatchSet(kind, meetings[m]) THEN Resp(200, "ignored")
    ELSE IF kind = "started" /\ meetings[m].status = ACTIVE THEN GoOn
    ELSE IF kind = "started" /\ meetings[m].status \notin StartableStatuses
    THEN Resp(200, "warning")
    ELSE IF res = "raise" THEN Resp(500, "exception")
    ELSE IF res = "invalid" THEN Resp(200, NotApplied(kind))
    ELSE GoOn

\* Variant: the container stop is scheduled after every exit.
ExitReapDelayAnyCode(exit_code, container) ==
    IF container # 0 THEN 10 ELSE -1

\* Delay of the container stop bot_exit_callback schedules (-1: none).
ExitReapDelay(exit_code, container) ==
    IF exit_code # 0 /\ container # 0 THEN 10 ELSE -1

\* Assignments of bot_startup_callback after its transition succeeded.
Stamp(row, container_id) ==
    [row EXCEPT !.bot_container_id = container_id, !.start_time = @ + 1]

\* Variant: the already-active branch stamps start_time again.
RebindRestart(row, container_id) ==
    [row EXCEPT !.bot_container_id = container_id, !.start_time = @ + 1]

\* Write of bot_startup_callback for a meeting it loaded as active: the
\* container id is the only column assigned before the commit.
Rebind(row, container_id) ==
    [row EXCEPT !.bot_container_id = container_id]

\* A callback whose transition is valid on the loaded row goes on to its
\* write.  A callback whose transition update_meeting_status rejects writes
\* nothing and answers at once; its publish is under "if success", so it
\* publishes nothing and changes nothing.  The other answers of
\* callback_checks are returned before any write and change nothing.
CallbackStart(kind, arg) ==
    /\ SessionByUid(arg.uid) # 0
    /\ LET m == SessionByUid(arg.uid)
           target == TargetOf(kind, arg.exit_code)
           answer == callback_checks(kind, arg)
       IN
       IF answer = GoOn
       THEN /\ CanStart
            /\ spent' = spent + Cost
            /\ handlers' = [handlers EXCEPT ![FreeSlot] =
                    [Idle EXCEPT !.op = kind, !.pc = "write", !.m = m,
                                 !.key = meetings[m].key, !.snap = meetings[m],
                                 !.arg = arg]]
            /\ UNCHANGED statusBus
       ELSE /\ answer = Resp(200, NotApplied(kind))
            /\ PublishAfter("invalid")
            /\ statusBus' = Published(statusBus, m, target)
            /\ UNCHANGED <<handlers, spent>>
    /\ UNCHANGED <<nomad, meetings, recent, sessions, pending, redis, cache, cmdBus, reaps,
                   dispatched>>

\* The write of a callback whose transition is valid on the loaded row:
\* update_meeting_status, the handler's own column writes, publish, tasks.
CallbackWrite(h) ==
    /\ handlers[h].op \in Kinds /\ handlers[h].pc = "write"
    /\ LET kind == handlers[h].op
           m == handlers[h].m
           arg == handlers[h].arg
           snap == handlers[h].snap
           target == TargetOf(kind, arg.exit_code)
           cr == IF kind = "exited" /\ arg.exit_code = 0
                 THEN (IF arg.extra THEN "everyone_left" ELSE "stopped") ELSE "none"
           fs == IF kind = "exited" /\ arg.exit_code # 0
                 THEN (IF arg.extra THEN "joining" ELSE "active") ELSE "none"
           meta == IF kind = "exited" THEN arg.exit_code ELSE -1
           row1 == CommitStatus(meetings[m], UpdatedRow(snap, target, cr, fs, meta))
       IN
       IF kind = "started" /\ snap.status = ACTIVE
       THEN \* already active: only the container is rebound
            /\ meetings' = [meetings EXCEPT ![m] = Rebind(@, arg.container_id)]
            /\ Return(h)
            /\ UNCHANGED <<statusBus, dispatched, reaps>>
       ELSE IF kind = "started"
       THEN \* update_meeting_status has committed active; the container id
            \* and start_time are assigned and committed after it
            /\ meetings' = [meetings EXCEPT ![m] = row1]
            /\ handlers' = [handlers EXCEPT ![h].pc = "stamp"]
            /\ UNCHANGED <<statusBus, dispatched, reaps>>
       ELSE \E tracked \in BOOLEAN :
            LET row2 ==
                  IF kind = "exited"
                  THEN [row1 EXCEPT !.end_time = TRUE,
                                    !.data.last_error =
                                        IF arg.exit_code # 0 /\ arg.extra /\ tracked
                                        THEN TRUE ELSE @]
                  ELSE row1
            IN /\ meetings' = [meetings EXCEPT ![m] = row2]
               /\ statusBus' = IF PublishAfter("ok") THEN Published(statusBus, m, target)
                               ELSE statusBus
               /\ Schedule(m, kind = "exited", row2.bot_container_id,
                           IF kind = "exited"
                           THEN ExitReapDelay(arg.exit_code, row2.bot_container_id)
                           ELSE -1)
               /\ Return(h)
    /\ UNCHANGED <<nomad, recent, sessions, pending, redis, cache, cmdBus, spent>>

\* Second commit of bot_startup_callback after a successful transition: the
\* container id and start_time; the row is then refreshed and active is
\* published if the refreshed row is active.
CallbackStamp(h) ==
    /\ handlers[h].op = "started" /\ handlers[h].pc = "stamp"
    /\ LET m == handlers[h].m IN
       /\ meetings' = [meetings EXCEPT ![m] = Stamp(@, handlers[h].arg.container_id)]
       /\ statusBus' = IF meetings[m].status = ACTIVE
                       THEN Published(statusBus, m, ACTIVE) ELSE statusBus
    /\ Return(h)
    /\ UNCHANGED <<nomad, recent, sessions, pending, redis, cache, cmdBus, reaps, dispatched,
                   spent>>

\* Payloads the bots can send: the connection id of a launched bot or an
\* unknown one (0); for started, the container the launcher returned or a
\* restarted one; for exited, exit code 0 or 1, with or without the optional
\* completion_reason / failure_stage / error_details.
CallbackArgs(kind) ==
    IF kind = "exited"
    THEN {[uid |-> u, container_id |-> 0, exit_code |-> e, extra |-> x] :
            u \in 0..MaxMeetings, e \in {0, 1}, x \in BOOLEAN}
    ELSE IF kind = "started"
    THEN {[uid |-> u, container_id |-> u + r * MaxMeetings, exit_code |-> 0,
           extra |-> FALSE] : u \in 0..MaxMeetings, r \in {0, 1}}
    ELSE {[uid |-> u, container_id |-> u, exit_code |-> 0, extra |-> FALSE] :
            u \in 0..MaxMeetings}

Next ==
    \/ \E u \in Users, k \in Keys : RequestBotStart(u, k)
    \/ \E h \in Handlers : RequestBotInsert(h)
    \/ \E h \in Handlers : RequestBotLaunch(h)
    \/ \E u \in Users, k \in Keys : StopBotStart(u, k)
    \/ \E h \in Handlers : StopBotLatch(h)
    \/ \E h \in Handlers : StopBotFinalize(h)
    \/ \E h \in Handlers : StopBotLeave(h)
    \/ \E u \in Users, k \in Keys : UpdateBotConfig(u, k)
    \/ \E kind \in Kinds : \E arg \in CallbackArgs(kind) : CallbackStart(kind, arg)
    \/ \E h \in Handlers : CallbackWrite(h)
    \/ \E h \in Handlers : CallbackStamp(h)
    \/ \E m \in 1..MaxMeetings : RecordSessionStart(m)

Spec == Init /\ [][Next]_vars

\* ---- legacy rows ----------------------------------------------------------
\* A row written by an earlier version of update_meeting_status: its audit
\* entries are under the deprecated key data['status_transitions'].
LegacyData ==
    [NoData EXCEPT !.has_status_transitions = TRUE,
                   !.status_transitions = <<transition_entry(REQUESTED, JOINING, "none", "none", -1)>>]

LegacyRow ==
    [NoRow EXCEPT !.user = 2, !.key = "gm:abc", !.status = JOINING,
                  !.bot_container_id = 1, !.data = LegacyData]

\* The database holds one launched legacy row with its session.
InitLegacy ==
    /\ meetings = <<LegacyRow>>
    /\ recent = <<FALSE>>
    /\ sessions = <<[meeting |-> 1, uid |-> 1]>>
    /\ pending = {}
    /\ redis \in {"up", "down"}
    /\ cache = [k \in Keys |-> 0]
    /\ statusBus = << << >> >>
    /\ cmdBus = << >>
    /\ reaps = << << >> >>
    /\ dispatched = <<0>>
    /\ handlers = [h \in Handlers |-> Idle]
    /\ spent = 2
    /\ nomad = NoNomad

SpecLegacy == InitLegacy /\ [][Next]_vars

\* ---- a running bot, with the delayed stop tasks run ---------------------------
\* The state after request_bot, _record_session_start and the started callback
\* of user 1's bot; the handlers that follow have the budget MaxBudget - 2.
ActiveData ==
    [NoData EXCEPT !.status_transition =
        <<transition_entry(REQUESTED, ACTIVE, "none", "none", -1)>>]

ActiveRow ==
    [NoRow EXCEPT !.user = 1, !.key = "gm:abc", !.status = ACTIVE,
                  !.bot_container_id = 1, !.start_time = 1, !.data = ActiveData]

InitActive ==
    /\ meetings = <<ActiveRow>>
    /\ recent = <<TRUE>>
    /\ sessions = <<[meeting |-> 1, uid |-> 1]>>
    /\ pending = {}
    /\ redis \in {"up", "down", "failing"}
    /\ cache = [k \in Keys |-> IF redis = "up" THEN 1 ELSE 0]
    /\ statusBus = <<IF redis = "up" THEN <<REQUESTED, ACTIVE>> ELSE << >> >>
    /\ cmdBus = << >>
    /\ reaps = << << >> >>
    /\ dispatched = <<0>>
    /\ handlers = [h \in Handlers |-> Idle]
    /\ spent = 2
    /\ nomad = NoNomad

NextStop ==
    \/ Next
    \/ \E m \in MeetingIds : \E i \in DOMAIN reaps[m] : DelayedContainerStop(m, i)

SpecStop == InitActive /\ [][NextStop]_vars

\* ---- GET /bots/status against a changing runtime ------------------------
Forget(n) == [n EXCEPT !.asked = 0, !.answer = NoNomad.answer]

\* A bot job of user u is dispatched.
NomadJobSubmit(j, u) ==
    /\ nomad.jobs[j].status = "none"
    /\ nomad' = Forget([nomad EXCEPT !.jobs[j] = [NoJob EXCEPT !.user = u, !.status = "pending"]])
    /\ UNCHANGED <<meetings, recent, sessions, pending, redis, cache, statusBus, cmdBus,
                   reaps, dispatched, handlers, spent>>

\* A job goes from pending to running and from running to dead.
NomadJobChange(j) ==
    /\ nomad.jobs[j].status \in {"pending", "running"}
    /\ nomad' = Forget([nomad EXCEPT !.jobs[j].status =
                            IF @ = "pending" THEN "running" ELSE "dead"])
    /\ UNCHANGED <<meetings, recent, sessions, pending, redis, cache, statusBus, cmdBus,
                   reaps, dispatched, handlers, spent>>

\* The detail or allocation request of a job starts or stops failing.
NomadDetailChange(j) ==
    /\ nomad.jobs[j].status # "none"
    /\ nomad' = Forget([nomad EXCEPT !.jobs[j].detail_ok = ~@])
    /\ UNCHANGED <<meetings, recent, sessions, pending, redis, cache, statusBus, cmdBus,
                   reaps, dispatched, handlers, spent>>

\* The job listing of the Nomad API starts or stops failing.
NomadApiChange ==
    /\ nomad' = Forget([nomad EXCEPT !.api = IF @ = "ok" THEN "fail" ELSE "ok"])
    /\ UNCHANGED <<meetings, recent, sessions, pending, redis, cache, statusBus, cmdBus,
                   reaps, dispatched, handlers, spent>>

\* GET /bots/status of user u.
GetUserBotsStatus(u) ==
    /\ nomad.asked = 0
    /\ nomad' = [nomad EXCEPT !.asked = u, !.answer = get_user_bots_status(u)]
    /\ UNCHANGED <<meetings, recent, sessions, pending, redis, cache, statusBus, cmdBus,
                   reaps, dispatched, handlers, spent>>

InitBots ==
    /\ Init
    /\ redis = "up"

NextBots ==
    \/ \E j \in JobIds, u \in Users : NomadJobSubmit(j, u)
    \/ \E j \in JobIds : NomadJobChange(j)
    \/ \E j \in JobIds : NomadDetailChange(j)
    \/ NomadApiChange
    \/ \E u \in Users : GetUserBotsStatus(u)

SpecBots == InitBots /\ [][NextBots]_vars

\* ---- properties -----------------------------------------------------------

\* C1: for every (user, platform, native id) at most one Meeting is in the
\* active set, and request_bot answers 409 whenever a Meeting of the tuple is
\* in one of the four active-set statuses.
C1_Uniqueness ==
    \A u \in Users, k \in Keys :
        LET live == {m \in MeetingsOf(u, k) : meetings[m].status \in ActiveSet} IN
        /\ Cardinality(live) <= 1
        /\ live # {} => request_bot_checks(u, k).code = 409

\* C2: a stop_bot or callback handler never changes the status of a row whose
\* stored status is COMPLETED or FAILED when the handler writes.
C2_TerminalIrreversible ==
    [][\A h \in Handlers :
          (handlers[h].op \in Kinds \cup {"stop"} /\ handlers'[h].op = "idle") =>
              LET m == handlers[h].m IN
              meetings[m].status \in Terminal =>
                  meetings'[m].status = meetings[m].status]_vars

\* C3: every stored status is one of the six MeetingStatus values and every
\* change of a stored status is a transition of the FSM table.
C3_OnlyFsmStatuses ==
    [][\A m \in 1..Len(meetings') :
          /\ meetings'[m].status \in MeetingStatus
          /\ (m \in MeetingIds /\ meetings'[m].status # meetings[m].status) =>
                is_valid_status_transition(meetings[m].status, meetings'[m].status)]_vars

\* C4: a user with max_concurrent_bots = L > 0 never has more than L Meetings
\* in the active set.
C4_ConcurrencyCap ==
    \A u \in Users :
        max_concurrent_bots[u] > 0 => CountActiveForUser(u) <= max_concurrent_bots[u]

\* C5: stop_bot on a Meeting whose latest row is COMPLETED or FAILED answers
\* 202 and goes no further: no stop handler ever works on a terminal row, so
\* nothing is written, published or scheduled for it.
C5_IdempotentStop ==
    /\ \A u \in Users, k \in Keys :
          LET m == LatestOf(MeetingsOf(u, k)) IN
          (m # 0 /\ meetings[m].status \in Terminal) =>
              stop_bot_checks(u, k) = Resp(202, "already terminal")
    /\ \A h \in Handlers :
          handlers[h].op = "stop" => handlers[h].snap.status \notin Terminal

\* C5 case: the latest row of a user is FAILED, and stop_bot answers 202.
C5_Witness ==
    \E u \in Users, k \in Keys :
        LET m == LatestOf(MeetingsOf(u, k)) IN
        /\ m # 0
        /\ meetings[m].status = FAILED
        /\ dispatched[m] > 0
        /\ stop_bot_checks(u, k).code = 202

\* C6: a joining, awaiting_admission or started callback that finds
\* data.stop_requested set answers 'ignored' and goes no further: no such
\* handler ever gets to its write with the latch set on the row it loaded.
C6_LatchHonor ==
    /\ \A kind \in Kinds \ {"exited"} : \A arg \in CallbackArgs(kind) :
          LET m == SessionByUid(arg.uid) IN
          (m # 0 /\ meetings[m].data.stop_requested) =>
              callback_checks(kind, arg) = Resp(200, "ignored")
    /\ \A h \in Handlers :
          handlers[h].op \in Kinds \ {"exited"} => ~handlers[h].snap.data.stop_requested

\* C6 case: the latch is stored on a pre-active row whose session exists, so
\* that the bot's callbacks reach the latch check.
C6_Witness ==
    \E m \in MeetingIds :
        /\ meetings[m].data.stop_requested
        /\ meetings[m].status \in PreActive
        /\ SessionIdx(m) # {}
        /\ callback_checks("started", [NoArg EXCEPT !.uid = m, !.container_id = m]).result = "ignored"

\* C7: the leave command of a meeting that has sessions goes to the channel
\* of its earliest session, the reconfigure command to the channel of its
\* latest session, with that uid in the payload.
C7_SessionRouting ==
    [][Len(cmdBus') > Len(cmdBus) =>
          LET c == Last(cmdBus') IN
          SessionIdx(c.m) # {} =>
              IF c.action = "leave"
              THEN c.channel = EarliestSessionUid(c.m)
              ELSE c.channel = LatestSessionUid(c.m) /\ c.uid = c.channel]_vars

\* C8: a change of a stored status from X to Y appends exactly one entry
\* (from X, to Y) to data.status_transition, the earlier entries stay as a
\* prefix, and nothing is appended when the status does not change.
C8_AuditComplete ==
    [][\A m \in MeetingIds :
          LET old == meetings[m].data.status_transition
              new == meetings'[m].data.status_transition
          IN
          IF meetings'[m].status # meetings[m].status
          THEN /\ Len(new) = Len(old) + 1
               /\ SubSeq(new, 1, Len(old)) = old
               /\ Last(new).from = meetings[m].status
               /\ Last(new).to = meetings'[m].status
          ELSE new = old]_vars

\* C9: a transition write on a row that has the deprecated key
\* status_transitions removes the key and keeps every entry it held in
\* data.status_transition.
C9_DeprecationMigration ==
    [][\A m \in MeetingIds :
          LET old == meetings[m].data
              new == meetings'[m].data
          IN
          (old.has_status_transitions /\ new.status_transition # old.status_transition) =>
              /\ ~new.has_status_transitions
              /\ \A i \in 1..Len(old.status_transitions) :
                    \E j \in 1..Len(new.status_transition) :
                        new.status_transition[j] = old.status_transitions[i]]_vars

C11_HappyPathOrdering ==
    \A m \in MeetingIds :
        LET log == meetings[m].data.status_transition IN
        (/\ spent <= 10
         /\ redis = "up"
         /\ Len(log) = 4
         /\ [i \in 1..4 |-> log[i].to] = <<JOINING, AWAITING_ADMISSION, ACTIVE, COMPLETED>>)
        => /\ [i \in 1..4 |-> log[i].from] = <<REQUESTED, JOINING, AWAITING_ADMISSION, ACTIVE>>
           /\ meetings[m].status = COMPLETED
           /\ statusBus[m] = <<REQUESTED, JOINING, AWAITING_ADMISSION, ACTIVE, COMPLETED>>

\* C11 case: the happy path has run to its end with the bus up.
C11_Witness ==
    \E m \in MeetingIds :
        /\ redis = "up"
        /\ spent <= 10
        /\ meetings[m].status = COMPLETED
        /\ Len(meetings[m].data.status_transition) = 4
        /\ meetings[m].data.status_transition[1].to = JOINING
        /\ meetings[m].data.status_transition[2].to = AWAITING_ADMISSION
        /\ meetings[m].data.status_transition[3].to = ACTIVE
        /\ Len(statusBus[m]) = 5

\* C12: once stop_bot's fast path has finished on a meeting (the latch is
\* stored, the row is COMPLETED with completion_reason stopped and a container
\* stop with delay 0 is scheduled), no later step of a joining,
\* awaiting_admission or started callback moves the row out of COMPLETED.
C12_StopBeforeAdmission ==
    [][\A m \in MeetingIds :
          (/\ meetings[m].status = COMPLETED
           /\ meetings[m].data.stop_requested
           /\ meetings[m].data.completion_reason = "stopped"
           /\ \E i \in DOMAIN reaps[m] : reaps[m][i].delay = 0)
          => meetings'[m].status = COMPLETED]_vars

\* C13: when request_bot returns after its insert, either a bot was launched
\* for its row and the row is REQUESTED (answer 201), or no bot was launched
\* and the row is outside the active set (HTTP error).
C13_CreationAllOrNothing ==
    [][\A h \in Handlers :
          (handlers[h].op = "request" /\ handlers[h].pc = "launch"
           /\ handlers'[h].op = "idle")
          => LET m == handlers[h].m IN
             \/ /\ m \in pending' \ pending
                /\ meetings'[m].bot_container_id # 0
                /\ meetings'[m].status = REQUESTED
             \/ /\ pending' = pending
                /\ meetings'[m].status \notin ActiveSet]_vars

\* C14: while a user with a limit L > 0 has L or more rows in the active
\* set, a request_bot of that user that passes the duplicate check is
\* answered 403, and no request_bot of that user gets past its checks: no row
\* is inserted, nothing is published and no bot is launched for it.
C14_CapRejection ==
    [][\A u \in Users :
          (max_concurrent_bots[u] > 0 /\ CountActiveForUser(u) >= max_concurrent_bots[u])
          => /\ \A k \in Keys : ExistingMeeting(u, k) = 0
                                 => request_bot_checks(u, k) = Resp(403, "limit")
             /\ \A h \in Handlers :
                   (handlers[h].op = "idle" /\ handlers'[h].op = "request")
                   => handlers'[h].user # u]_vars

\* C14 case: a limited user is at the limit and a new request of that user
\* reaches the limit check.
C14_Witness ==
    \E u \in Users : \E k \in Keys :
        /\ max_concurrent_bots[u] > 0
        /\ CountActiveForUser(u) >= max_concurrent_bots[u]
        /\ ExistingMeeting(u, k) = 0
        /\ request_bot_checks(u, k).code = 403

\* C15: an exited callback that found its meeting non-terminal leaves the row
\* COMPLETED when exit_code is 0, with completion_reason the supplied value or
\* stopped, and FAILED otherwise, with failure_stage the supplied value or
\* active; the entry it appends to the audit list carries that reason or
\* stage together with the exit code.
C15_ExitClassification ==
    [][\A h \in Handlers :
          (handlers[h].op = "exited" /\ handlers[h].pc = "write"
           /\ handlers'[h].op = "idle")
          => LET arg == handlers[h].arg
                 row == meetings'[handlers[h].m]
                 entry == Last(row.data.status_transition)
             IN
             /\ handlers[h].snap.status \notin Terminal
             /\ entry.from = handlers[h].snap.status
             /\ entry.to = row.status
             /\ entry.exit_code = arg.exit_code
             /\ IF arg.exit_code = 0
                THEN /\ row.status = COMPLETED
                     /\ row.data.completion_reason =
                            (IF arg.extra THEN "everyone_left" ELSE "stopped")
                     /\ entry.completion_reason = row.data.completion_reason
                ELSE /\ row.status = FAILED
                     /\ row.data.failure_stage =
                            (IF arg.extra THEN "joining" ELSE "active")
                     /\ entry.failure_stage = row.data.failure_stage]_vars

\* C15 case: an exit with a non-zero code and no failure_stage has been
\* recorded on a row that was not terminal.
C15_Witness ==
    \E m \in MeetingIds :
        /\ meetings[m].status = FAILED
        /\ meetings[m].data.failure_stage = "active"
        /\ Last(meetings[m].data.status_transition).exit_code = 1

\* C16: when an exited callback with a non-zero exit code has moved its
\* meeting to FAILED, data.last_error is present, with or without the optional
\* fields of the payload; when an exited callback with exit code 0 has
\* written, data.last_error is absent.
C16_LastError ==
    [][\A h \in Handlers :
          (handlers[h].op = "exited" /\ handlers[h].pc = "write"
           /\ handlers'[h].op = "idle")
          => LET row == meetings'[handlers[h].m] IN
             IF handlers[h].arg.exit_code = 0
             THEN ~row.data.last_error
             ELSE row.status = FAILED => row.data.last_error]_vars

\* C17: the post-meeting tasks of a meeting have been dispatched exactly once
\* when the meeting is COMPLETED or FAILED, and not at all when it is in any
\* other status.
C17_DispatchOncePerTerminal ==
    \A m \in MeetingIds :
        dispatched[m] = IF meetings[m].status \in Terminal THEN 1 ELSE 0

\* C18: a started callback that finds its meeting ACTIVE changes nothing but
\* bot_container_id, which becomes the reported container: status, start_time
\* and the audit list keep their values and no status message is published.
C18_DuplicateStarted ==
    [][\A h \in Handlers :
          (handlers[h].op = "started" /\ handlers[h].pc = "write"
           /\ handlers[h].snap.status = ACTIVE /\ handlers'[h].op = "idle")
          => LET m == handlers[h].m IN
             /\ meetings'[m].bot_container_id = handlers[h].arg.container_id
             /\ meetings'[m].status = meetings[m].status
             /\ meetings'[m].start_time = meetings[m].start_time
             /\ meetings'[m].data = meetings[m].data
             /\ meetings' = [meetings EXCEPT
                              ![m].bot_container_id = handlers[h].arg.container_id]
             /\ statusBus' = statusBus]_vars

\* C18 case: a started callback reporting another container has loaded its
\* meeting as ACTIVE, with start_time set by the first started callback, and
\* is at its write.
C18_Witness ==
    \E h \in Handlers :
        /\ handlers[h].op = "started" /\ handlers[h].pc = "write"
        /\ handlers[h].snap.status = ACTIVE
        /\ handlers[h].snap.start_time = 1
        /\ handlers[h].arg.container_id # handlers[h].snap.bot_container_id

\* C19: update_bot_config answers 404 when the user has no meeting for the
\* tuple and 409 when the user has meetings for it but none is ACTIVE, and
\* the request, whatever its answer, changes no meeting row: the step that
\* publishes the reconfigure command leaves every row as it was.
C19_ReconfigurePrecondition ==
    /\ [](\A u \in Users : \A k \in Keys :
             /\ MeetingsOf(u, k) = {} => update_bot_config(u, k).code = 404
             /\ (/\ MeetingsOf(u, k) # {}
                 /\ \A m \in MeetingsOf(u, k) : meetings[m].status # ACTIVE)
                => update_bot_config(u, k).code = 409)
    /\ [][(Len(cmdBus') > Len(cmdBus) /\ Last(cmdBus').action = "reconfigure")
             => meetings' = meetings]_vars

\* C19 case: a user has a meeting for the tuple that is past ACTIVE, so that
\* the reconfigure request is refused with 409.
C19_Witness ==
    \E u \in Users : \E k \in Keys :
        /\ MeetingsOf(u, k) # {}
        /\ \A m \in MeetingsOf(u, k) : meetings[m].status = COMPLETED
        /\ update_bot_config(u, k) = Resp(409, "not active")

\* C20: update_bot_config answers 202, 404, 409 or 503, and when the command
\* for an ACTIVE meeting with a session cannot be published, because the bus
\* is unavailable or the publish fails, the answer is 503.
C20_ReconfigureAllOrNothing ==
    \A u \in Users : \A k \in Keys :
        LET m == ActiveMeeting(u, k)
            answer == update_bot_config(u, k)
        IN
        /\ answer.code \in {202, 404, 409, 503}
        /\ (m # 0 /\ ResolveSessionUid(k, m) # 0 /\ redis # "up") => answer.code = 503

\* C21: every callback is answered 200, whatever its connection id and the
\* status of its meeting: a callback either goes on to its write (and then
\* answers 200) or stops at its checks with a 200 answer.
C21_CallbacksAnswer200 ==
    \A kind \in Kinds : \A arg \in CallbackArgs(kind) :
        callback_checks(kind, arg) = GoOn \/ callback_checks(kind, arg).code = 200

\* C22: a meeting for which stop_bot has answered 202 reaches COMPLETED or
\* FAILED through the controller's own tasks alone: once the stop request has
\* scheduled its container stop, every handler has returned and every
\* scheduled container stop of the meeting has run, the meeting is terminal,
\* whether or not the bot's exited callback arrives.
C22_StopReachesTerminal ==
    \A m \in MeetingIds :
        (/\ \E i \in DOMAIN reaps[m] : reaps[m][i].delay \in {0, 30}
         /\ \A i \in DOMAIN reaps[m] : reaps[m][i].done
         /\ IdleSlots = Handlers)
        => meetings[m].status \in Terminal

\* C23: in every state a row that is COMPLETED or FAILED has end_time set and
\* end_time is set only on a row that some handler moved into COMPLETED or
\* FAILED (every such handler dispatches the post-meeting tasks); a row that
\* is ACTIVE has start_time set, and start_time has been written at most once.
C23_TimestampsFollowStatus ==
    \A m \in MeetingIds :
        /\ meetings[m].status \in Terminal => meetings[m].end_time
        /\ meetings[m].end_time => dispatched[m] >= 1
        /\ meetings[m].status = ACTIVE => meetings[m].start_time >= 1
        /\ meetings[m].start_time <= 1

\* C24: when stop_bot returns 202 for a meeting it found non-terminal, and
\* the user has no other non-terminal meeting, a request_bot of the same user
\* for the same tuple issued right after passes its checks (and is answered
\* 201 with a new REQUESTED row), whether or not the stopped meeting has
\* reached a terminal status.
C24_RequestAfterStop ==
    [][\A h \in Handlers : \A u \in Users : \A k \in Keys :
          (/\ handlers[h].op = "stop" /\ handlers[h].user = u /\ handlers[h].key = k
           /\ handlers[h].pc \in {"finalize", "fast", "leave"}
           /\ handlers[h].snap.status \in ActiveSet
           /\ handlers'[h].op = "idle"
           /\ \A m \in MeetingIds : (m # handlers[h].m /\ meetings[m].user = u)
                                      => meetings[m].status \in Terminal)
          => request_bot_checks(u, k)' = GoOn]_vars

\* C25: when stop_bot returns 202 for a meeting it found ACTIVE, with the bus
\* up, it has published stopping on the meeting's status channel, and no
\* message announcing completed or failed precedes that message.
C25_StopAnnounced ==
    [][\A h \in Handlers :
          (/\ handlers[h].op = "stop" /\ handlers[h].pc = "leave"
           /\ handlers[h].snap.status = ACTIVE
           /\ handlers'[h].op = "idle"
           /\ redis = "up")
          => LET m == handlers[h].m IN
             /\ statusBus'[m] = Append(statusBus[m], StopAnnouncement)
             /\ \A i \in DOMAIN statusBus[m] : statusBus[m][i] \notin Terminal]_vars

\* C26: of two request_bot handlers for the same user and tuple that run at
\* the same time at most one inserts a row: no handler inserts its row while
\* another running handler for the same tuple has inserted one.
C26_CreationSerialized ==
    [][\A h1 \in Handlers : \A h2 \in Handlers \ {h1} :
          (/\ handlers[h1].op = "request" /\ handlers[h1].pc = "insert"
           /\ handlers'[h1].pc = "launch"
           /\ handlers[h2].op = "request"
           /\ handlers[h2].user = handlers[h1].user
           /\ handlers[h2].key = handlers[h1].key)
          => handlers[h2].pc # "launch"]_vars

\* C27: when request_bot returns after a failed pre-flight validation or a
\* failed launch, its row is FAILED with failure_stage joining and end_time
\* set, and the audit list ends with the entry requested -> failed.
C27_LaunchFailureMarksFailed ==
    [][\A h \in Handlers :
          (/\ handlers[h].op = "request" /\ handlers[h].pc = "launch"
           /\ handlers'[h].op = "idle"
           /\ handlers[h].m \notin pending')
          => LET row == meetings'[handlers[h].m]
                 log == row.data.status_transition
             IN /\ row.status = FAILED
                /\ row.data.failure_stage = "joining"
                /\ row.end_time
                /\ Len(log) >= 1
                /\ Last(log).from = REQUESTED
                /\ Last(log).to = FAILED]_vars

C29_GeneralStopDoesNotFinalize ==
    [][/\ \A h \in Handlers :
             (handlers[h].op = "stop" /\ handlers[h].pc = "leave"
              /\ handlers'[h].op = "idle")
             => /\ meetings' = meetings
                /\ reaps'[handlers[h].m] =
                      Append(reaps[handlers[h].m],
                             [container |-> handlers[h].snap.bot_container_id,
                              delay |-> 30, done |-> FALSE])
       /\ \A m \in MeetingIds :
             (/\ \E i \in DOMAIN reaps[m] : reaps[m][i].delay = 30
              /\ meetings'[m].status # meetings[m].status)
             => \E h \in Handlers :
                   /\ handlers[h].op = "exited" /\ handlers[h].pc = "write"
                   /\ handlers[h].m = m
                   /\ handlers'[h].op = "idle"]_vars

\* C30: a leave command is published only for a meeting that has a
\* MeetingSession, on the channel of its earliest session; the general path
\* of stop_bot for a meeting without session publishes no command.
C30_LeaveOnlyToSession ==
    [][\A h \in Handlers :
          (handlers[h].op = "stop" /\ handlers[h].pc = "leave"
           /\ handlers'[h].op = "idle")
          => IF SessionIdx(handlers[h].m) = {}
             THEN cmdBus' = cmdBus
             ELSE cmdBus' # cmdBus =>
                    /\ Last(cmdBus').action = "leave"
                    /\ Last(cmdBus').channel = EarliestSessionUid(handlers[h].m)]_vars

\* C31: stop_bot on a row that is not COMPLETED or FAILED and has no container
\* (a row left by a failed launch included) is answered 202 and leaves the
\* meeting COMPLETED with completion_reason stopped, with completed published
\* when the bus is up and the post-meeting tasks scheduled once.
C31_StopWithoutContainer ==
    [][\A h \in Handlers :
          (/\ handlers[h].op = "stop" /\ handlers[h].pc = "finalize"
           /\ handlers'[h].op = "idle")
          => LET m == handlers[h].m IN
             /\ update_meeting_status(handlers[h].snap, COMPLETED) # "raise"
             /\ meetings'[m].status = COMPLETED
             /\ meetings'[m].data.completion_reason = "stopped"
             /\ redis = "up" => statusBus'[m] = Append(statusBus[m], COMPLETED)
             /\ dispatched'[m] = dispatched[m] + 1]_vars

\* C32: a started callback that finds its meeting with the stop latch unset and
\* in REQUESTED, JOINING, AWAITING_ADMISSION or FAILED goes on to its write,
\* and when it returns the meeting is ACTIVE with start_time set and
\* bot_container_id the container of the callback, and active is published
\* when the bus is up.
C32_StartedActivates ==
    /\ [](\A arg \in CallbackArgs("started") :
             LET m == SessionByUid(arg.uid) IN
             (/\ m # 0
              /\ ~meetings[m].data.stop_requested
              /\ meetings[m].status \in {REQUESTED, JOINING, AWAITING_ADMISSION, FAILED})
             => callback_checks("started", arg) = GoOn)
    /\ [][\A h \in Handlers :
             (/\ handlers[h].op = "started" /\ handlers[h].pc = "stamp"
              /\ handlers'[h].op = "idle")
             => LET m == handlers[h].m IN
                /\ meetings'[m].status = ACTIVE
                /\ meetings'[m].start_time >= 1
                /\ meetings'[m].bot_container_id = handlers[h].arg.container_id
                /\ redis = "up" => statusBus'[m] = Append(statusBus[m], ACTIVE)]_vars

\* C33: a joining callback goes on to its write only from REQUESTED and an
\* awaiting_admission callback only from REQUESTED or JOINING (the status of
\* the row the callback loaded); the status of a meeting becomes joining or
\* awaiting_admission, and that status is published, only in the write of
\* such a callback, which appends the entry to the audit list.
C33_PreActiveSources ==
    /\ [](\A kind \in {"joining", "awaiting_admission"} : \A arg \in CallbackArgs(kind) :
             LET m == SessionByUid(arg.uid) IN
             (m # 0 /\ callback_checks(kind, arg) = GoOn)
             => meetings[m].status \in
                    (IF kind = "joining" THEN {REQUESTED} ELSE {REQUESTED, JOINING}))
    /\ [][\A m \in MeetingIds : \A kind \in {"joining", "awaiting_admission"} :
             LET t == TargetOf(kind, 0) IN
             (\/ meetings'[m].status = t /\ meetings[m].status # t
              \/ statusBus'[m] # statusBus[m] /\ Last(statusBus'[m]) = t)
             => \E h \in Handlers :
                   /\ handlers[h].op = kind /\ handlers[h].pc = "write"
                   /\ handlers[h].m = m /\ handlers'[h].op = "idle"
                   /\ handlers[h].snap.status \in
                        (IF kind = "joining" THEN {REQUESTED} ELSE {REQUESTED, JOINING})
                   /\ meetings'[m].status = t
                   /\ Last(meetings'[m].data.status_transition).from = handlers[h].snap.status
                   /\ Last(meetings'[m].data.status_transition).to = t]_vars

\* C33 case: the joining callback has moved a meeting from REQUESTED to
\* JOINING; a second joining callback for it is refused, an
\* awaiting_admission callback goes on.
C33_Witness ==
    \E m \in MeetingIds :
        /\ meetings[m].status = JOINING
        /\ Len(meetings[m].data.status_transition) = 1
        /\ meetings[m].data.status_transition[1].from = REQUESTED
        /\ ~meetings[m].data.stop_requested
        /\ callback_checks("joining", [NoArg EXCEPT !.uid = m, !.container_id = m])
              = Resp(200, "joining processed")
        /\ callback_checks("awaiting_admission", [NoArg EXCEPT !.uid = m, !.container_id = m])
              = GoOn

C35_RequestedAfterLaunch ==
    \A m \in MeetingIds :
        (\E i \in DOMAIN statusBus[m] : statusBus[m][i] = REQUESTED)
        => meetings[m].bot_container_id # 0

\* C36: with the bus unavailable or failing, the general path of stop_bot
\* still schedules the container stop with delay 30 and returns; the write of
\* a callback still commits its transition and returns; and the finalizing
\* paths of stop_bot still commit COMPLETED, schedule the post-meeting tasks
\* and return.  Nothing reaches the bus.
C36_BusFailuresDoNotBlock ==
    [][redis # "up" =>
         /\ statusBus' = statusBus \/ Len(statusBus') = Len(statusBus) + 1
         /\ \A m \in MeetingIds : statusBus'[m] = statusBus[m]
         /\ \A h \in Handlers :
               LET m == handlers[h].m
                   snap == handlers[h].snap
               IN
               /\ (handlers[h].op = "stop" /\ handlers[h].pc = "leave"
                   /\ handlers'[h] # handlers[h])
                  => /\ handlers'[h].op = "idle"
                     /\ reaps'[m] = Append(reaps[m], [container |-> snap.bot_container_id,
                                                      delay |-> 30, done |-> FALSE])
               /\ (handlers[h].op \in Kinds /\ handlers[h].pc = "write"
                   /\ snap.status # ACTIVE
                   /\ handlers'[h] # handlers[h])
                  => /\ meetings'[m].status = TargetOf(handlers[h].op, handlers[h].arg.exit_code)
                     /\ handlers'[h].op = "idle" \/ handlers'[h].pc = "stamp"
               /\ (handlers[h].op = "stop" /\ handlers[h].pc \in {"finalize", "fast"}
                   /\ snap.status \in ActiveSet
                   /\ handlers'[h] # handlers[h])
                  => /\ meetings'[m].status = COMPLETED
                     /\ dispatched'[m] = dispatched[m] + 1
                     /\ handlers'[h].op = "idle"]_vars

\* C36 case: with the bus failing, a bot became active, was stopped along the
\* general path and exited: the container stop is scheduled, the meeting is
\* terminal and no status message was ever published.
C36_Witness ==
    /\ redis = "failing"
    /\ \E m \in MeetingIds :
          /\ \E i \in DOMAIN reaps[m] : reaps[m][i].delay = 30
          /\ meetings[m].status \in Terminal
          /\ meetings[m].start_time = 1
          /\ statusBus[m] = << >>

\* C37: GET /bots/status answers 500 when the job listing of the runtime
\* fails, and answers 200 only when the listing succeeded, with a list that
\* holds only jobs of the caller that are running or pending.
C37_RuntimeFailureReported ==
    nomad.asked # 0 =>
        /\ nomad.api # "ok" => nomad.answer.code = 500
        /\ nomad.answer.code = 200 =>
              /\ nomad.api = "ok"
              /\ \A j \in nomad.answer.running_bots :
                    /\ nomad.jobs[j].user = nomad.asked
                    /\ nomad.jobs[j].status \in {"running", "pending"}

\* C38: every callback of a launched bot resolves to its meeting: once
\* request_bot has handed a connection id to a launched bot, a callback
\* carrying that id finds the MeetingSession and its meeting, whether or not
\* the scheduled recording of the session has run.
C38_NoCallbackLost ==
    \A m \in MeetingIds :
        meetings[m].bot_container_id # 0 =>
            /\ SessionByUid(m) = m
            /\ \A kind \in Kinds : \A arg \in CallbackArgs(kind) :
                  arg.uid = m =>
                     callback_checks(kind, arg) \notin
                        {Resp(200, "session not found"), Resp(500, "exception")}

\* C39: a reconfigure command issued by a user is published only on the
\* command channel of a session of one of that user's meetings, whatever
\* other users have requested for the same platform and native meeting id.
C39_CommandIsolation ==
    \A i \in DOMAIN cmdBus :
        cmdBus[i].action = "reconfigure" =>
            LET owner == SessionByUid(cmdBus[i].channel) IN
            IF owner # 0 THEN meetings[owner].user = cmdBus[i].by
            ELSE \E m \in pending : m = cmdBus[i].channel /\ meetings[m].user = cmdBus[i].by

\* C40: in every state a meeting whose status is not REQUESTED has a
\* non-empty data.status_transition whose last entry leads to the current
\* status, the first entry starts from requested, and every entry starts
\* from the status the entry before it leads to.
C40_AuditAgreesWithRow ==
    \A m \in MeetingIds :
        LET log == meetings[m].data.status_transition IN
        /\ meetings[m].status # REQUESTED =>
              /\ Len(log) >= 1
              /\ Last(log).to = meetings[m].status
        /\ Len(log) >= 1 => log[1].from = REQUESTED
        /\ \A i \in 2..Len(log) : log[i].from = log[i - 1].to

====
